---- MODULE Spec2Model ----
(***************************************************************************)
(* The GCE metadata processor (plugins/processors/gce/gce.go) and the      *)
(* enrichment dispatcher it drives (plugins/common/parallel).              *)
(*                                                                         *)
(* The processor's handlers (Init, Start, Add, Stop, asyncAdd,             *)
(* getTagFromGCE) are translated from gce.go.  The dispatcher's source is  *)
(* not part of the source tree; it is modelled from the design document    *)
(* (sections 3, 4 and 5): a pool of worker slots, and in ordered mode a    *)
(* reorder buffer with the cursor nextToRelease.                           *)
(*                                                                         *)
(* Strings that the code splits or joins are sequences of one-character    *)
(* strings, so that strings.Split and strings.Join are computed.           *)
(***************************************************************************)
EXTENDS Integers, Sequences, FiniteSets, Bags, TLC

\* ------------------------------------------------------------------ bounds
\* Number of Add calls the host makes.
MaxItems == 3
\* Largest max_parallel_calls a configuration file sets (0 is the smallest).
MaxCalls == 2
\* The reorder queue's capacity is scaled down to this many entries, so
\* that a full queue is reached with MaxItems items.
QueueScale == 2

\* ------------------------------------------------------- program constants
DefaultMaxOrderedQueueSize == 10000
DefaultMaxParallelCalls == 10

Items == 1..MaxItems

\* The permitted-tag table with its first entry left out.
permittedTagsNoZone == {"tags", "name", "hostname"}

permittedTags == {"zone", "tags", "name", "hostname"}

\* The allow_tags lists a configuration file may hold.
TagLists ==
  { <<>>, <<"zone">>, <<"name", "tags">>, <<"hostname", "bogus">>, <<"">> }

\* What the metadata server answers for instance/zone as the client hands
\* it to the caller: the full resource path or the bare zone name.
ZoneForms ==
  { <<"p", "/", "1", "/", "z", "/", "a">>, <<"a">> }

\* The instance's network tags, its name and its hostname.
InstanceTagList == << <<"x">>, <<"y">> >>
InstanceName == <<"n">>
InstanceHostname == <<"h">>

Min(a, b) == IF a < b THEN a ELSE b

\* ------------------------------------------------------------------ state
VARIABLES
  configured,        \* the configuration file has been applied to the struct
  AllowTags,         \* GceProcessor.AllowTags
  Ordered,           \* GceProcessor.Ordered
  MaxParallelCalls,  \* GceProcessor.MaxParallelCalls
  allowTagsMap,      \* GceProcessor.allowTagsMap (its key set)
  gceClient,         \* GceProcessor.gceClient: "nil" or "client"
  parallel,          \* GceProcessor.parallel: nil or the dispatcher built
  initResult,        \* what Init returned: "none" (not called), "nil", "error"
  stopResult,        \* what Stop returned: "none", "nil", "error"
  caller,            \* the host goroutine: "idle", "add" (in Enqueue), "stop"
  added,             \* number of Add calls made on a started processor
  closed,            \* the dispatcher was told that no more items come
  running,           \* items whose asyncAdd call is executing
  todo,              \* per item: keys of allowTagsMap the loop has not visited
  cur,               \* per item: the tag whose lookup is outstanding, or "none"
  metric,            \* per item: the metric's tags (set of <<key, value>>)
  ctxDone,           \* items whose timeout context has expired
  buffer,            \* reorder buffer: sequence number -> completed output
  nextToRelease,     \* reorder buffer's release cursor
  sink,              \* the records the accumulator received, in order
  failedItems,       \* items one of whose lookups returned an error
  crashed,           \* "none", or why the process terminated (a panic)
  zoneRaw            \* the metadata server's zone answer

cfgVars == <<configured, AllowTags, Ordered, MaxParallelCalls>>
procVars == <<allowTagsMap, gceClient, parallel>>
callVars == <<running, todo, cur, metric, ctxDone>>
dispVars == <<closed, buffer, nextToRelease, sink>>
vars == <<cfgVars, procVars, initResult, stopResult, caller, added,
          callVars, dispVars, failedItems, crashed, zoneRaw>>

\* ---------------------------------------------------------- pure helpers
isTagPermitted(tag) == tag \in permittedTags

\* Index of the first sep in s, 0 when there is none.
RECURSIVE IndexFrom(_, _, _)
IndexFrom(s, sep, k) ==
  IF k > Len(s) THEN 0
  ELSE IF s[k] = sep THEN k ELSE IndexFrom(s, sep, k + 1)

\* strings.Split(s, sep) for a one-character separator.
RECURSIVE Split(_, _)
Split(s, sep) ==
  LET k == IndexFrom(s, sep, 1) IN
  IF k = 0 THEN <<s>>
  ELSE <<SubSeq(s, 1, k - 1)>> \o Split(SubSeq(s, k + 1, Len(s)), sep)

\* strings.Join(elems, sep).
RECURSIVE Join(_, _)
Join(elems, sep) ==
  IF Len(elems) = 0 THEN <<>>
  ELSE IF Len(elems) = 1 THEN elems[1]
  ELSE elems[1] \o sep \o Join(Tail(elems), sep)

\* The metric the host passes to the i-th Add call.
InputMetric(i) ==
  [id |-> i, tags |-> IF i = 2 THEN {<<"name", <<"o">>>>} ELSE {}]

\* Metric.AddTag: sets the key, replacing a tag of the same key.
AddTag(tags, key, val) ==
  {p \in tags : p[1] # key} \cup {<<key, val>>}

\* getTagFromGCE(tag) when the client's call answered (ok) or failed.
\* Result: val, err (an error is returned), panic (index out of range).
getTagFromGCE(tag, ok) ==
  CASE tag = "zone" ->
         IF ~ok THEN [val |-> <<>>, err |-> TRUE, panic |-> FALSE]
         ELSE LET parts == Split(zoneRaw, "/") IN
              IF Len(parts) < 4
                THEN [val |-> <<>>, err |-> FALSE, panic |-> TRUE]
                ELSE [val |-> parts[4], err |-> FALSE, panic |-> FALSE]
    [] tag = "tags" ->
         IF ~ok THEN [val |-> <<>>, err |-> TRUE, panic |-> FALSE]
         ELSE [val |-> Join(InstanceTagList, <<",">>), err |-> FALSE,
               panic |-> FALSE]
    [] tag = "name" ->
         IF ~ok THEN [val |-> <<>>, err |-> TRUE, panic |-> FALSE]
         ELSE [val |-> InstanceName, err |-> FALSE, panic |-> FALSE]
    [] tag = "hostname" ->
         IF ~ok THEN [val |-> <<>>, err |-> TRUE, panic |-> FALSE]
         ELSE [val |-> InstanceHostname, err |-> FALSE, panic |-> FALSE]
    [] OTHER -> [val |-> <<>>, err |-> FALSE, panic |-> FALSE]

\* ------------------------------------------------- dispatcher (design doc)
\* The nil value of the interface field GceProcessor.parallel.
NilDispatcher == [mode |-> "nil", maxQueueSize |-> 0, concurrencyLimit |-> 0]

\* parallel.NewOrdered(acc, fn, maxQueueSize, concurrencyLimit).
NewOrdered(maxQueueSize, concurrencyLimit) ==
  [mode |-> "ordered", maxQueueSize |-> maxQueueSize,
   concurrencyLimit |-> concurrencyLimit]

\* parallel.NewUnordered(acc, fn, concurrencyLimit).
NewUnordered(concurrencyLimit) ==
  [mode |-> "unordered", maxQueueSize |-> 0,
   concurrencyLimit |-> concurrencyLimit]

\* Items Enqueue has accepted: each got the next sequence number.
Enqueued == IF caller = "add" THEN added - 1 ELSE added

\* Sequence numbers enqueued and not yet released (ordered mode).
Outstanding == Enqueued - (nextToRelease - 1)

\* Enqueue may proceed: a worker slot is free and, in ordered mode, the
\* reorder buffer cannot exceed maxQueueSize with one more item.
EnqueueReady ==
  /\ Cardinality(running) < parallel.concurrencyLimit
  /\ parallel.mode = "ordered" => Outstanding < parallel.maxQueueSize

\* A finished enrichment call hands its output to the dispatcher: stored
\* under its sequence number (ordered) or emitted at once (unordered).
Deliver(i, out) ==
  IF parallel.mode = "ordered"
    THEN /\ buffer' = [s \in DOMAIN buffer \cup {i} |->
                         IF s = i THEN out ELSE buffer[s]]
         /\ UNCHANGED <<sink, nextToRelease>>
    ELSE /\ sink' = sink \o out
         /\ UNCHANGED <<buffer, nextToRelease>>

\* What Stop waits for: nothing in flight, nothing left to release.
Drained ==
  /\ running = {}
  /\ DOMAIN buffer = {}
  /\ parallel.mode = "ordered" => nextToRelease = Enqueued + 1

\* ------------------------------------------------------------------- init
\* The state newGceProcessor() returns.
Init ==
  /\ configured = FALSE
  /\ AllowTags = <<>>
  /\ Ordered = FALSE
  /\ MaxParallelCalls = DefaultMaxParallelCalls
  /\ allowTagsMap = {}
  /\ gceClient = "nil"
  /\ parallel = NilDispatcher
  /\ initResult = "none"
  /\ stopResult = "none"
  /\ caller = "idle"
  /\ added = 0
  /\ closed = FALSE
  /\ running = {}
  /\ todo = [i \in Items |-> {}]
  /\ cur = [i \in Items |-> "none"]
  /\ metric = [i \in Items |-> {}]
  /\ ctxDone = {}
  /\ buffer = <<>>
  /\ nextToRelease = 1
  /\ sink = <<>>
  /\ failedItems = {}
  /\ crashed = "none"
  /\ zoneRaw \in ZoneForms

Alive == crashed = "none"

\* ---------------------------------------------------------------- actions
\* The host decodes the configuration file into the struct's toml fields.
Configure ==
  /\ Alive /\ ~configured
  /\ configured' = TRUE
  /\ AllowTags' \in TagLists
  /\ Ordered' \in BOOLEAN
  /\ MaxParallelCalls' \in 0..MaxCalls
  /\ UNCHANGED <<procVars, initResult, stopResult, caller, added, callVars,
                 dispVars, failedItems, crashed, zoneRaw>>

\* Init's loop storing the tag in the map before testing it.
RECURSIVE InitLoopStoreFirst(_, _, _)
InitLoopStoreFirst(tags, k, map) ==
  IF k > Len(tags) THEN [map |-> map, err |-> FALSE]
  ELSE IF tags[k] = "" \/ ~isTagPermitted(tags[k])
         THEN [map |-> map \cup {tags[k]}, err |-> TRUE]
         ELSE InitLoopStoreFirst(tags, k + 1, map \cup {tags[k]})

\* The tags Init's loop has put in the map when it returns, and whether it
\* returned an error: the loop stops at the first un-permitted tag.
RECURSIVE InitLoop(_, _, _)
InitLoop(tags, k, map) ==
  IF k > Len(tags) THEN [map |-> map, err |-> FALSE]
  ELSE IF tags[k] = "" \/ ~isTagPermitted(tags[k])
         THEN [map |-> map, err |-> TRUE]
         ELSE InitLoop(tags, k + 1, map \cup {tags[k]})

\* GceProcessor.Init.
InitProcessor ==
  /\ Alive /\ configured /\ initResult = "none"
  /\ LET r == InitLoop(AllowTags, 1, allowTagsMap) IN
       /\ allowTagsMap' = r.map
       /\ initResult' = IF r.err THEN "error" ELSE "nil"
  /\ UNCHANGED <<cfgVars, gceClient, parallel, stopResult, caller, added,
                 callVars, dispVars, failedItems, crashed, zoneRaw>>

\* A queue size one larger than the constant.
QueueSizeArgPlusOne == Min(DefaultMaxOrderedQueueSize + 1, QueueScale + 1)

\* The worker count taken from the default, not from the configuration.
WorkerCountArgDefault == DefaultMaxParallelCalls

\* The two arguments Start passes to the dispatcher's constructor.
QueueSizeArg == Min(DefaultMaxOrderedQueueSize, QueueScale)
WorkerCountArg == MaxParallelCalls

\* Start with the two constructors exchanged.
StartSwapped ==
  /\ Alive /\ initResult = "nil" /\ parallel = NilDispatcher /\ caller = "idle"
  /\ gceClient' = "client"
  /\ parallel' = IF Ordered
                   THEN NewUnordered(WorkerCountArg)
                   ELSE NewOrdered(QueueSizeArg, WorkerCountArg)
  /\ UNCHANGED <<cfgVars, allowTagsMap, initResult, stopResult, caller,
                 added, callVars, dispVars, failedItems, crashed, zoneRaw>>

\* GceProcessor.Start; the host starts a processor whose Init returned nil.
Start ==
  /\ Alive /\ initResult = "nil" /\ parallel = NilDispatcher /\ caller = "idle"
  /\ gceClient' = "client"
  /\ parallel' = IF Ordered
                   THEN NewOrdered(QueueSizeArg, WorkerCountArg)
                   ELSE NewUnordered(WorkerCountArg)
  /\ UNCHANGED <<cfgVars, allowTagsMap, initResult, stopResult, caller,
                 added, callVars, dispVars, failedItems, crashed, zoneRaw>>

\* GceProcessor.Add is entered: r.parallel.Enqueue(metric) is called, which
\* dereferences a nil dispatcher when Start has not run.
AddCall ==
  /\ Alive /\ caller = "idle" /\ ~closed /\ added < MaxItems
  /\ initResult = "nil"
  /\ IF parallel = NilDispatcher
       THEN /\ crashed' = "nil-dispatcher"
            /\ UNCHANGED <<caller, added>>
       ELSE /\ caller' = "add"
            /\ added' = added + 1
            /\ UNCHANGED crashed
  /\ UNCHANGED <<cfgVars, procVars, initResult, stopResult, callVars,
                 dispVars, failedItems, zoneRaw>>

\* Enqueue accepts the item into a worker slot, where asyncAdd starts with
\* a fresh timeout context, and Add returns nil.
AddReturn ==
  /\ Alive /\ caller = "add" /\ EnqueueReady
  /\ caller' = "idle"
  /\ running' = running \cup {added}
  /\ todo' = [todo EXCEPT ![added] = allowTagsMap]
  /\ metric' = [metric EXCEPT ![added] = InputMetric(added).tags]
  /\ UNCHANGED <<cfgVars, procVars, initResult, stopResult, added, cur,
                 ctxDone, dispVars, failedItems, crashed, zoneRaw>>

\* asyncAdd's loop takes the next key of allowTagsMap (in map order, which
\* is any order) and calls getTagFromGCE, whose client call is now out.
BeginLookup(i) ==
  /\ Alive /\ i \in running /\ cur[i] = "none"
  /\ \E tag \in todo[i] :
       /\ cur' = [cur EXCEPT ![i] = tag]
       /\ todo' = [todo EXCEPT ![i] = todo[i] \ {tag}]
  /\ UNCHANGED <<cfgVars, procVars, initResult, stopResult, caller, added,
                 running, metric, ctxDone, dispVars, failedItems, crashed,
                 zoneRaw>>

\* The client call answers (ok) or fails; getTagFromGCE returns, and
\* asyncAdd adds the tag, or panics on the error.
EndLookup(i, ok) ==
  /\ Alive /\ i \in running /\ cur[i] # "none"
  /\ LET r == getTagFromGCE(cur[i], ok) IN
       /\ crashed' = IF r.panic THEN "index-out-of-range"
                     ELSE IF r.err THEN "lookup-error" ELSE crashed
       /\ failedItems' = IF r.err THEN failedItems \cup {i} ELSE failedItems
       /\ metric' = IF r.panic \/ r.err THEN metric
                    ELSE [metric EXCEPT ![i] = AddTag(metric[i], cur[i], r.val)]
       /\ cur' = IF r.panic \/ r.err THEN cur ELSE [cur EXCEPT ![i] = "none"]
  /\ UNCHANGED <<cfgVars, procVars, initResult, stopResult, caller, added,
                 running, todo, ctxDone, dispVars, zoneRaw>>

\* The timer of the context asyncAdd created fires.  The context is not
\* handed to the client, so an outstanding lookup goes on.
TimeoutExpire(i) ==
  /\ Alive /\ i \in running /\ cur[i] # "none" /\ i \notin ctxDone
  /\ ctxDone' = ctxDone \cup {i}
  /\ UNCHANGED <<cfgVars, procVars, initResult, stopResult, caller, added,
                 running, todo, cur, metric, dispVars, failedItems, crashed,
                 zoneRaw>>

\* asyncAdd returning an empty slice instead of the metric.
AsyncAddReturnEmpty(i) ==
  /\ Alive /\ i \in running /\ cur[i] = "none" /\ todo[i] = {}
  /\ running' = running \ {i}
  /\ ctxDone' = ctxDone \ {i}
  /\ Deliver(i, <<>>)
  /\ UNCHANGED <<cfgVars, procVars, initResult, stopResult, caller, added,
                 todo, cur, metric, closed, failedItems, crashed, zoneRaw>>

\* asyncAdd returns the one metric (its deferred cancel runs); the worker
\* slot is freed and the dispatcher gets the output.
AsyncAddReturn(i) ==
  /\ Alive /\ i \in running /\ cur[i] = "none" /\ todo[i] = {}
  /\ running' = running \ {i}
  /\ ctxDone' = ctxDone \ {i}
  /\ Deliver(i, << [id |-> i, tags |-> metric[i]] >>)
  /\ UNCHANGED <<cfgVars, procVars, initResult, stopResult, caller, added,
                 todo, cur, metric, closed, failedItems, crashed, zoneRaw>>

\* The ordered dispatcher's release step: the entry at the cursor is
\* removed, emitted to the accumulator, and the cursor moves on.
Release ==
  /\ Alive /\ parallel # NilDispatcher /\ nextToRelease \in DOMAIN buffer
  /\ sink' = sink \o buffer[nextToRelease]
  /\ buffer' = [s \in DOMAIN buffer \ {nextToRelease} |-> buffer[s]]
  /\ nextToRelease' = nextToRelease + 1
  /\ UNCHANGED <<cfgVars, procVars, initResult, stopResult, caller, added,
                 callVars, closed, failedItems, crashed, zoneRaw>>

\* Stop with the nil test inverted: the error for a started processor, and
\* a call through the nil dispatcher for an unstarted one.
StopCallInverted ==
  /\ Alive /\ caller = "idle" /\ ~closed
  /\ IF parallel # NilDispatcher
       THEN /\ stopResult' = "error"
            /\ UNCHANGED crashed
       ELSE /\ crashed' = "nil-dispatcher"
            /\ UNCHANGED stopResult
  /\ UNCHANGED <<cfgVars, procVars, initResult, caller, added, callVars,
                 dispVars, failedItems, zoneRaw>>

\* GceProcessor.Stop is entered: a usage error without a dispatcher,
\* otherwise r.parallel.Stop() is called.
StopCall ==
  /\ Alive /\ caller = "idle" /\ ~closed
  /\ IF parallel = NilDispatcher
       THEN /\ stopResult' = "error"
            /\ UNCHANGED <<caller, closed>>
       ELSE /\ caller' = "stop"
            /\ closed' = TRUE
            /\ UNCHANGED stopResult
  /\ UNCHANGED <<cfgVars, procVars, initResult, added, callVars, buffer,
                 nextToRelease, sink, failedItems, crashed, zoneRaw>>

\* Stop returning nil without waiting for r.parallel.Stop().
StopReturnNoWait ==
  /\ Alive /\ caller = "stop"
  /\ caller' = "idle"
  /\ stopResult' = "nil"
  /\ UNCHANGED <<cfgVars, procVars, initResult, added, callVars, dispVars,
                 failedItems, crashed, zoneRaw>>

\* r.parallel.Stop() returns once the dispatcher has drained, and Stop
\* returns nil.
StopReturn ==
  /\ Alive /\ caller = "stop" /\ Drained
  /\ caller' = "idle"
  /\ stopResult' = "nil"
  /\ UNCHANGED <<cfgVars, procVars, initResult, added, callVars, dispVars,
                 failedItems, crashed, zoneRaw>>

Next ==
  \/ Configure
  \/ InitProcessor
  \/ Start
  \/ AddCall
  \/ AddReturn
  \/ \E i \in Items : BeginLookup(i)
  \/ \E i \in Items : \E ok \in BOOLEAN : EndLookup(i, ok)
  \/ \E i \in Items : TimeoutExpire(i)
  \/ \E i \in Items : AsyncAddReturn(i)
  \/ Release
  \/ StopCall
  \/ StopReturn

Spec == Init /\ [][Next]_vars

\* The goroutines that can run do run: a suspended Enqueue resumes, a worker
\* goes on with its loop and returns, the release step and a waiting Stop
\* proceed; and the metadata server answers every lookup.  The host's own
\* calls, a failing lookup and the timer are not forced.
Fairness ==
  /\ WF_vars(AddReturn)
  /\ WF_vars(Release)
  /\ WF_vars(StopReturn)
  /\ \A i \in Items :
       /\ WF_vars(BeginLookup(i))
       /\ WF_vars(EndLookup(i, TRUE))
       /\ WF_vars(AsyncAddReturn(i))

FairSpec == Init /\ [][Next]_vars /\ Fairness

\* ------------------------------------------------------------- type check
TypeOK ==
  /\ configured \in BOOLEAN
  /\ Ordered \in BOOLEAN
  /\ allowTagsMap \subseteq permittedTags
  /\ running \subseteq Items
  /\ ctxDone \subseteq running
  /\ nextToRelease \in 1..(MaxItems + 1)
  /\ added \in 0..MaxItems

\* ------------------------------------------------------------------ claims
Started == parallel # NilDispatcher

SinkIds == {sink[k].id : k \in DOMAIN sink}

\* C1: in ordered mode the accumulator receives the records in the order
\* of the Add calls that produced them: a record of a later-enqueued item
\* never comes before a record of an earlier-enqueued one.
C1_OrderedSinkInEnqueueOrder ==
  Ordered =>
    \A a, b \in DOMAIN sink : a < b => sink[a].id < sink[b].id

\* C1 witness: the first item is released while the third has completed
\* early and waits in the reorder buffer for the second, still running.
C1_Witness ==
  /\ Ordered /\ Started
  /\ Len(sink) = 1 /\ sink[1].id = 1
  /\ 3 \in DOMAIN buffer /\ 2 \in running

\* The tags asyncAdd leaves on a metric when every lookup answers: one
\* AddTag per key of the map, keys taken in any order.
RECURSIVE Enriched(_, _)
Enriched(tags, keys) ==
  IF keys = {} THEN tags
  ELSE LET k == CHOOSE x \in keys : TRUE IN
       Enriched(AddTag(tags, k, getTagFromGCE(k, TRUE).val), keys \ {k})

Expected(i) ==
  [id |-> i, tags |-> Enriched(InputMetric(i).tags, allowTagsMap)]

BagOfSeq(s) ==
  [r \in {s[k] : k \in DOMAIN s} |-> Cardinality({k \in DOMAIN s : s[k] = r})]

\* C2: in unordered mode, once Stop has returned after N Add calls, the
\* multiset of records the accumulator received is the multiset of the
\* enrichment of each added metric: none lost, none twice.
C2_UnorderedMultiset ==
  (~Ordered /\ stopResult = "nil") =>
    BagOfSeq(sink) = BagOfSeq([i \in 1..added |-> Expected(i)])

\* C2 witness: an unordered run of MaxItems enriched items that Stop has
\* drained, the accumulator having received them out of enqueue order.
C2_Witness ==
  /\ ~Ordered /\ stopResult = "nil"
  /\ allowTagsMap # {}
  /\ Len(sink) = MaxItems /\ sink[1].id # 1

\* C3: a lookup failure inside one item's enrichment call stays local to
\* that item: the process (and with it the dispatcher and the other items
\* in flight) is not terminated.
C3_LookupFailureIsLocal ==
  failedItems # {} => crashed = "none"

\* C4: in ordered mode, when the enrichment call of the item at the release
\* cursor has failed, that item is marked completed at its position, so
\* the cursor can move past it.
C4_FailedHeadIsCompleted ==
  (Ordered /\ nextToRelease \in failedItems) =>
    nextToRelease \in DOMAIN buffer

\* C5: in both modes the number of enrichment calls executing at the same
\* time is at most the configured max_parallel_calls.
C5_ConcurrencyBound ==
  Started => Cardinality(running) <= MaxParallelCalls

\* C5 witness: every slot is taken by an executing call and one more Add
\* is waiting in Enqueue for a slot.
C5_Witness ==
  /\ Started /\ MaxParallelCalls >= 2
  /\ Cardinality(running) = MaxParallelCalls
  /\ caller = "add"

\* C6: when Stop has returned nil, every item added before it has finished
\* its enrichment call and reached the accumulator; nothing is in flight
\* and the reorder buffer is empty.
C6_StopDrains ==
  stopResult = "nil" =>
    /\ running = {}
    /\ DOMAIN buffer = {}
    /\ SinkIds = 1..added
    /\ Len(sink) = added

\* C6 witness: Stop has returned in ordered mode after MaxItems items,
\* all of them released.
C6_Witness ==
  /\ stopResult = "nil" /\ Ordered
  /\ added = MaxItems /\ Len(sink) = MaxItems

\* C7: a Stop that returns the usage error is a Stop on a processor without
\* a dispatcher, and it changes nothing else; a Stop on a started
\* processor returns nil.
C7_StopBeforeStart ==
  [][ stopResult' # stopResult =>
        /\ (stopResult' = "error") <=> (parallel = NilDispatcher)
        /\ (stopResult' = "nil") <=> (parallel # NilDispatcher)
        /\ stopResult' = "error" =>
              UNCHANGED <<cfgVars, procVars, initResult, caller, added,
                          callVars, dispVars, failedItems, crashed, zoneRaw>>
    ]_vars

\* C7 witness: Stop has returned the usage error on a configured,
\* initialised processor that was never started.
C7_Witness ==
  /\ stopResult = "error" /\ parallel = NilDispatcher
  /\ initResult = "nil"

\* The queue size the processor's constant stands for, at the model's scale.
MaxQueueSize == Min(DefaultMaxOrderedQueueSize, QueueScale)

\* C8: in ordered mode the reorder buffer never holds more than
\* maxQueueSize completed entries that are not yet released.
C8_ReorderBufferBound ==
  Ordered => Cardinality(DOMAIN buffer) <= MaxQueueSize

\* C8 witness: the item at the cursor is still running while the buffer is
\* full of later, completed items, and the next Add is held back.
C8_Witness ==
  /\ Ordered /\ Started
  /\ nextToRelease \in running
  /\ Cardinality(DOMAIN buffer) >= 1
  /\ Outstanding = MaxQueueSize
  /\ caller = "add"

\* C9: Init returns an error exactly when allow_tags holds a tag that is
\* empty or not one of zone, tags, name, hostname; and then no dispatcher
\* has been built, no client made and no enrichment call run.
C9_InitRejectsUnpermitted ==
  initResult # "none" =>
    /\ (initResult = "error") <=>
          (\E k \in DOMAIN AllowTags :
             \/ AllowTags[k] = ""
             \/ AllowTags[k] \notin {"zone", "tags", "name", "hostname"})
    /\ initResult = "error" =>
          /\ parallel = NilDispatcher /\ gceClient = "nil"
          /\ added = 0 /\ running = {} /\ sink = <<>>

\* C9 witness: Init has rejected a list whose second tag is not permitted.
C9_Witness ==
  /\ initResult = "error"
  /\ AllowTags = <<"hostname", "bogus">>

\* C10: the timeout ends a lookup that does not answer: once the timeout
\* context of an enrichment call has expired, no lookup of that call is
\* still outstanding.
C10_TimeoutEndsLookup ==
  \A i \in running : i \in ctxDone => cur[i] = "none"

\* C11: in unordered mode an item's record reaches the accumulator in the
\* very step in which its enrichment call completes, whatever earlier items
\* are still in flight, and the accumulator receives nothing at any other
\* time: its order is the order of completion.
C11_UnorderedReleaseOnCompletion ==
  [][ ~Ordered =>
        /\ \A i \in running \ running' :
              sink' = Append(sink, [id |-> i, tags |-> metric[i]])
        /\ sink' # sink => \E i \in running : running' = running \ {i}
    ]_vars

\* C11 witness: the second item's record is in the accumulator while the
\* first item, enqueued before it, is still executing.
C11_Witness ==
  /\ ~Ordered /\ Started
  /\ Len(sink) = 1 /\ sink[1].id = 2
  /\ 1 \in running

\* C12: the dispatcher is only built with validated parameters: whenever
\* Init succeeded and Start has built the dispatcher, its concurrencyLimit
\* is at least 1 and, in ordered mode, so is its maxQueueSize.
C12_DispatcherParametersPositive ==
  Started =>
    /\ parallel.concurrencyLimit >= 1
    /\ parallel.mode = "ordered" => parallel.maxQueueSize >= 1

\* The ids of the accumulator's records, in the order received.
SinkIdSeq == [k \in DOMAIN sink |-> sink[k].id]

\* C14: in ordered mode, after every step, the accumulator has received
\* exactly the sequence numbers below nextToRelease, once each and in
\* increasing order; and the cursor moves only by a release step that
\* emits the completed entry at the cursor and moves on by one.
C14_ReleasedBelowCursor ==
  [][ Ordered' =>
        /\ SinkIdSeq' = [k \in 1..(nextToRelease' - 1) |-> k]
        /\ nextToRelease' # nextToRelease =>
              /\ nextToRelease \in DOMAIN buffer
              /\ sink' = sink \o buffer[nextToRelease]
              /\ nextToRelease' = nextToRelease + 1
              /\ nextToRelease \notin DOMAIN buffer'
    ]_vars

\* C14 witness: two items are released, in order, and the third has
\* completed and sits at the cursor, to be taken by the next release step.
C14_Witness ==
  /\ Ordered /\ Started
  /\ nextToRelease = 3 /\ Len(sink) = 2
  /\ 3 \in DOMAIN buffer

\* C16: every key of allowTagsMap is one of the four permitted tags, also
\* after an Init that returned an error; so no lookup is ever made for
\* another field name (getTagFromGCE's default branch is never taken).
C16_AllowTagsMapPermitted ==
  /\ allowTagsMap \subseteq {"zone", "tags", "name", "hostname"}
  /\ \A i \in Items :
       /\ todo[i] \subseteq {"zone", "tags", "name", "hostname"}
       /\ cur[i] \in {"none", "zone", "tags", "name", "hostname"}

\* C16 witness: Init has returned an error at the second tag of its list,
\* after storing the first, permitted one.
C16_Witness ==
  /\ initResult = "error"
  /\ AllowTags = <<"hostname", "bogus">>
  /\ allowTagsMap = {"hostname"}

\* C17: as long as no lookup has failed, no enrichment call is lost (every
\* call yields its one record) and each record the accumulator has received
\* is the added metric with one tag per key of allowTagsMap and nothing
\* else changed; with an empty map no lookup is made.
C17_EnrichmentResult ==
  failedItems = {} =>
    /\ crashed # "index-out-of-range"
    /\ \A k \in DOMAIN sink : sink[k] = Expected(sink[k].id)
    /\ allowTagsMap = {} => \A i \in Items : cur[i] = "none"

\* C13: Add neither fails nor deadlocks: an Add suspended in Enqueue is
\* eventually resumed and returns, and every item accepted into a worker
\* slot eventually reaches the accumulator, exactly once.
C13_AddResumesItemsReleased ==
  /\ (caller = "add") ~> (caller = "idle")
  /\ \A i \in Items :
       (i \in running) ~>
         (Cardinality({k \in DOMAIN sink : sink[k].id = i}) = 1)

====
